---- MODULE Spec2Model ----
(***************************************************************************)
(* VSTL (Very Simple Test Library), src/vstl.hpp, POSIX branch.            *)
(*                                                                         *)
(* The model is the state machine of main(): init() installs the signal    *)
(* handlers, run() walks the registered tests, test::run()/test::call()    *)
(* invoke each body and classify what it throws, signal_handler() recovers *)
(* from signals through the two jump buffers, summary() prints the counts. *)
(* A test body is a sequence of the library's macros and of the operations *)
(* user code can perform on the harness (raise a signal, throw, spin).     *)
(* Real time is abstracted: an armed interval timer may expire between any *)
(* two steps of the process.                                               *)
(***************************************************************************)
EXTENDS Integers, Sequences, FiniteSets, TLC

VARIABLES
    tests,            \* vstl::tests, the registered bodies in registration order
    handlers,         \* vstl::handlers, the registered error handlers
    count,            \* VSTL_TEST_COUNT
    trigger_debugger, \* VSTL_TRIGGER_DEBUGGER
    print_skip_reason,\* VSTL_PRINT_SKIP_REASON
    mode,             \* the TestMode given to run(out, mode) of version 3.1
    disposition,      \* the process's signal dispositions
    timer,            \* ITIMER_REAL: milliseconds armed, 0 when disarmed
    index,            \* vstl::index
    failed,           \* vstl::failed
    successful,       \* vstl::successful
    skipped,          \* vstl::skipped
    fail_on_alarm,    \* vstl::fail_on_alarm
    expected_signal,  \* vstl::expected_signal
    jmp,              \* vstl::jmp: the loop position whose sigsetjmp filled it, 0 before
    expect_jmp,       \* vstl::expect_jmp: the EXPECT_SIGNAL block that filled it
    pc,               \* where main() is
    it,               \* the range-for iterator of run(), as a position in tests
    rep,              \* the loop variable i of test::call
    bpc,              \* the next instruction of the running body
    blocks,           \* the wrapper blocks of the body that are on the stack
    out,              \* the result lines printed so far
    executed_out,     \* what summary() printed, one record for each run
    exit_code,        \* main's return value
    tally             \* per loop position: body invocations and counter increments

vars == << tests, handlers, count, trigger_debugger, print_skip_reason, mode,
           disposition, timer, index, failed, successful, skipped,
           fail_on_alarm, expected_signal, jmp, expect_jmp, pc, it, rep, bpc,
           blocks, out, executed_out, exit_code, tally >>

(***************************************************************************)
(* Bounds of the model.                                                    *)
(***************************************************************************)
MaxUnits == 2
\* The largest VSTL_TEST_COUNT a harness is built with.
MaxCount == 2
\* The largest number of error handlers a test file registers.
MaxHandlers == 2
MaxRuns == 2
\* The largest number of SIGTERM another process sends and the handler reports.
MaxExternal == 1

(***************************************************************************)
(* Signal numbers (Linux), as <csignal> gives them to the code.            *)
(***************************************************************************)
SIGILL == 4
SIGTRAP == 5
SIGABRT == 6
SIGFPE == 8
SIGSEGV == 11
SIGALRM == 14
SIGTERM == 15

Signals == {SIGILL, SIGTRAP, SIGABRT, SIGFPE, SIGSEGV, SIGALRM, SIGTERM}

\* The signals the documentation of EXPECT_SIGNAL calls fatal.
FatalSignals == {SIGSEGV, SIGILL, SIGFPE, SIGABRT, SIGTERM}

\* Default settings of the header.
VSTL_TEST_COUNT == 1
VSTL_TRIGGER_DEBUGGER == TRUE
VSTL_PRINT_SKIP_REASON == FALSE

\* #signum in EXPECT_SIGNAL stringifies the macro argument as written.
SignalText(sig) ==
    CASE sig = SIGSEGV -> "SIGSEGV"
      [] sig = SIGILL -> "SIGILL"
      [] sig = SIGFPE -> "SIGFPE"
      [] sig = SIGABRT -> "SIGABRT"
      [] sig = SIGTERM -> "SIGTERM"
      [] sig = SIGTRAP -> "SIGTRAP"
      [] sig = SIGALRM -> "SIGALRM"
      [] OTHER -> "0"

get_signal_name(sig) ==
    IF sig = SIGSEGV THEN "SIGSEGV"
    ELSE IF sig = SIGILL THEN "SIGILL"
    ELSE IF sig = SIGFPE THEN "SIGFPE"
    ELSE IF sig = SIGABRT THEN "SIGABRT"
    ELSE IF sig = SIGTERM THEN "SIGTERM"
    ELSE IF sig = SIGTRAP THEN "SIGTRAP"
    ELSE "unknown signal"

(***************************************************************************)
(* Values handed to FAIL and SKIP, and vstl::to_printable.                 *)
(***************************************************************************)
StrVal(s) == [kind |-> "string", str |-> s, num |-> 0]
IntVal(n) == [kind |-> "int", str |-> "", num |-> n]
ObjVal == [kind |-> "object", str |-> "", num |-> 0]

to_printable(value) ==
    CASE value.kind = "int" -> ToString(value.num)
      [] value.kind = "string" -> value.str
      [] OTHER -> "<non-printable value>"

VSTL_LINE(line) == "on line " \o ToString(line)

\* FailMessage without the line: the reason alone.
ReasonOnly(reason, line) == to_printable(reason)

\* The string FAIL(reason) and SKIP(reason) build on source line `line`.
FailMessage(reason, line) == to_printable(reason) \o ", " \o VSTL_LINE(line) \o "!"

(***************************************************************************)
(* Instructions of a test body.                                            *)
(***************************************************************************)
Instr(op, sig, arg, line, end, exc) ==
    [op |-> op, sig |-> sig, arg |-> arg, line |-> line, end |-> end, exc |-> exc]

\* A statement that does not touch the harness and returns.
NOP == Instr("NOP", 0, ObjVal, 0, 0, "")
\* A statement that never returns by itself (a sleep longer than the timeout).
SPIN == Instr("SPIN", 0, ObjVal, 0, 0, "")
TIMEOUT(seconds) == Instr("TIMEOUT", 0, IntVal(seconds), 0, 0, "")
\* raise(sig), or faulty code that makes the kernel deliver sig.
RAISE(sig) == Instr("RAISE", sig, ObjVal, 0, 0, "")
FAIL(reason, line) == Instr("FAIL", 0, reason, line, 0, "")
\* An intermittent failure: FAIL("Flaky") in the n-th invocation of the body only.
FLAKY(n, line) == Instr("FLAKY", 0, IntVal(n), line, 0, "")
SKIP(reason, line) == Instr("SKIP", 0, reason, line, 0, "")
\* throw of a user exception: exc is its type, what its text.
THROW(exc, what) == Instr("THROW", 0, StrVal(what), 0, 0, exc)
\* EXPECT_SIGNAL(sig) { ... }: the block ends at instruction `end`.
EXPECT_SIGNAL(sig, line, end) == Instr("EXPECT_SIGNAL", sig, ObjVal, line, end, "")
\* The FAIL("Expected signal " #signum) that follows inner() in the wrapper.
END_SIGNAL(sig, line) == Instr("END_SIGNAL", sig, ObjVal, line, 0, "")

(***************************************************************************)
(* The bodies a test file registers: those of demo.cpp, and variations of  *)
(* them that combine the same macros.                                      *)
(***************************************************************************)
vstl_final == << >>
vstl_fail == << FAIL(StrVal("Oops"), 36) >>
vstl_check == << FAIL(IntVal(42), 21) >>
vstl_fault == << RAISE(SIGSEGV) >>
vstl_skip == << SKIP(StrVal("I don't feel like testing rn"), 132) >>
vstl_signal ==
    << TIMEOUT(1), EXPECT_SIGNAL(SIGSEGV, 103, 4), RAISE(SIGSEGV),
       END_SIGNAL(SIGSEGV, 103), SPIN >>
vstl_throw == << THROW("std", "Error of a runtime type") >>
vstl_custom == << THROW("custom", "42") >>
throw_int == << THROW("int", "42") >>
timeout_quick == << TIMEOUT(1), NOP >>
timeout_spin == << TIMEOUT(1), SPIN >>
timeout_fail == << TIMEOUT(1), FAIL(StrVal("Thief"), 57) >>
timeout_fault == << TIMEOUT(1), RAISE(SIGFPE) >>
expect_ok ==
    << EXPECT_SIGNAL(SIGFPE, 12, 3), RAISE(SIGFPE), END_SIGNAL(SIGFPE, 12), NOP >>
expect_none ==
    << EXPECT_SIGNAL(SIGSEGV, 14, 3), NOP, END_SIGNAL(SIGSEGV, 14) >>
expect_other ==
    << EXPECT_SIGNAL(SIGSEGV, 16, 3), RAISE(SIGABRT), END_SIGNAL(SIGSEGV, 16) >>
raise_alarm == << RAISE(SIGALRM), NOP >>
timeout_skip == << TIMEOUT(1), SKIP(StrVal("Not today"), 18) >>
flaky_second == << FLAKY(2, 20) >>
timeout_flaky == << TIMEOUT(1), FLAKY(2, 22) >>

Bodies ==
    { vstl_final, vstl_fail, vstl_check, vstl_fault, vstl_skip, vstl_signal,
      vstl_throw, vstl_custom, timeout_quick, timeout_spin, timeout_fail,
      timeout_fault, expect_ok, expect_none, expect_other, raise_alarm,
      timeout_skip, flaky_second, timeout_flaky, throw_int }

\* Bodies that raise the debugger trap themselves.
raise_trap == << RAISE(SIGTRAP), NOP >>
expect_trap ==
    << EXPECT_SIGNAL(SIGTRAP, 24, 3), RAISE(SIGTRAP), END_SIGNAL(SIGTRAP, 24) >>

\* The expected signal raised in the block and once more after it.
expect_twice ==
    << EXPECT_SIGNAL(SIGFPE, 26, 3), RAISE(SIGFPE), END_SIGNAL(SIGFPE, 26),
       RAISE(SIGFPE), NOP >>

\* EXPECT_ANY() { ... }: the wrapper calls inner() in a try block that rethrows a
\* test_error and swallows everything else; `end` is the position of its END_ANY.
EXPECT_ANY(line, end) == Instr("EXPECT_ANY", 0, ObjVal, line, end, "")
END_ANY(line) == Instr("END_ANY", 0, ObjVal, line, 0, "")

\* An EXPECT_SIGNAL block left by an exception that the EXPECT_ANY around it
\* swallows, and the signal raised after both.
any_signal_throw ==
    << EXPECT_ANY(30, 5), EXPECT_SIGNAL(SIGSEGV, 31, 4), THROW("custom", "42"),
       END_SIGNAL(SIGSEGV, 31), END_ANY(30), RAISE(SIGSEGV), NOP >>
any_thrown == << EXPECT_ANY(32, 3), THROW("std", "Error of a runtime type"), END_ANY(32), NOP >>
any_none == << EXPECT_ANY(34, 3), NOP, END_ANY(34) >>

\* Every registration of at most MaxUnits tests.
TestLists == UNION { [1..n -> Bodies] : n \in 0..MaxUnits }

(***************************************************************************)
(* Error handlers (HANDLER { CATCH_PTR (...) { ... } }).                   *)
(*   translate: CATCH_PTR (const Custom& e) { FAIL("Custom " + ...) }      *)
(*   catchall:  CATCH_PTR (...) { FAIL("Anything") }                       *)
(*   throws:    the handler throws something that is not a test_error      *)
(*   returns:   the handler returns without throwing                       *)
(***************************************************************************)
HandlerLists == { << >>, << "translate" >> }

Handlers == {"translate", "catchall", "throws", "returns"}

\* Every registration of at most MaxHandlers handlers.
HandlerSeqs == UNION { [1..n -> Handlers] : n \in 0..MaxHandlers }

(***************************************************************************)
(* State after static registration, before main() starts.                  *)
(***************************************************************************)
NoTally == [invoked |-> 0, failed |-> 0, successful |-> 0]

\* enum TestMode of version 3.1; run() of src/vstl.hpp has no mode and skips
\* failed tests.
VSTL_MODE_LENIENT == "VSTL_MODE_LENIENT"
VSTL_MODE_STRICT == "VSTL_MODE_STRICT"
TestMode == { VSTL_MODE_LENIENT, VSTL_MODE_STRICT }

InitMode(ts, hs, k, dbg, psr, m) ==
    /\ mode = m
    /\ tests = ts
    /\ handlers = hs
    /\ count = k
    /\ trigger_debugger = dbg
    /\ print_skip_reason = psr
    /\ disposition = [s \in Signals |-> "default"]
    /\ timer = 0
    /\ index = 0
    /\ failed = 0
    /\ successful = 0
    /\ skipped = 0
    /\ fail_on_alarm = FALSE
    /\ expected_signal = 0
    /\ jmp = 0
    /\ expect_jmp = [blk |-> 0, live |-> FALSE]
    /\ pc = "main"
    /\ it = 0
    /\ rep = 0
    /\ bpc = 0
    /\ blocks = << >>
    /\ out = << >>
    /\ executed_out = << >>
    /\ exit_code = -1
    /\ tally = [u \in 1..(Len(ts) + 1) |-> NoTally]

InitWith(ts, hs, k, dbg, psr) == InitMode(ts, hs, k, dbg, psr, VSTL_MODE_LENIENT)

Init ==
    \E ts \in TestLists, hs \in HandlerLists :
        InitWith(ts, hs, VSTL_TEST_COUNT, VSTL_TRIGGER_DEBUGGER, VSTL_PRINT_SKIP_REASON)

(***************************************************************************)
(* Helpers.                                                                *)
(***************************************************************************)
NumTests == Len(tests)

\* The iterator value tests.end().
EndIt == NumTests + 1

\* The places of main() at which the frame of run() is on the stack.
InRun == {"loop", "call", "body", "ret_true", "ret_false", "jmp_ret", "skip",
          "next", "summary"}

\* The places at which the process has stopped executing the program.
Stopped == {"exit", "killed", "undefined"}

CurBody == tests[it]
CurInstr == CurBody[bpc]
AtInstr(op) == pc = "body" /\ bpc \in 1..Len(CurBody) /\ CurInstr.op = op

\* A result line: the test it names (a position of tests, 0 for a name read out of
\* bounds), its status word and its text; `at`, `where`, `expected`, `cause` and
\* `sig` record the loop position, the place of main(), the value of
\* expected_signal, the code path and the signal that printed it, `tried` the
\* handlers test::run called before it printed the line.
Line(unit, status, cause, sig, text) ==
    [unit |-> unit, at |-> it, where |-> pc, expected |-> expected_signal,
     status |-> status, cause |-> cause, sig |-> sig, text |-> text,
     tried |-> << >>]

Bump(field) ==
    IF it \in DOMAIN tally
    THEN [tally EXCEPT ![it][field] = @ + 1]
    ELSE tally

\* size_t subtraction: a - b, or 2^64 - (b - a) when it wraps.
SizeSub(a, b) ==
    IF a >= b THEN [wrapped |-> FALSE, value |-> a - b]
    ELSE [wrapped |-> TRUE, value |-> b - a]

\* The behaviour is undefined from here on: nothing more is known of the process.
Undefined ==
    /\ pc' = "undefined"
    /\ UNCHANGED << it, rep, bpc, blocks, expected_signal, expect_jmp, out >>

\* The process is terminated by the default action of a signal.
Killed ==
    /\ pc' = "killed"
    /\ UNCHANGED << it, rep, bpc, blocks, expected_signal, expect_jmp, out >>

(***************************************************************************)
(* The signal handler.  The operators below give the next values of        *)
(* pc, it, rep, bpc, blocks, expected_signal, expect_jmp and out.          *)
(***************************************************************************)

\* VSTL_JMP_SIG(jmp): back to the sigsetjmp of run().  The frames of the body are
\* abandoned.  The iterator of the range-for is a local of run() that is not
\* volatile: when it was changed after the sigsetjmp its value is indeterminate
\* (the one saved with the registers, or the one in memory).
JumpToRun(lines) ==
    IF pc \in InRun /\ jmp # 0
    THEN /\ pc' = "jmp_ret"
         /\ it' \in {it, jmp}
         /\ rep' = 0
         /\ bpc' = 0
         /\ blocks' = << >>
         /\ expect_jmp' = [expect_jmp EXCEPT !.live = FALSE]
         /\ expected_signal' = expected_signal
         /\ out' = out \o lines
    ELSE Undefined

\* VSTL_JMP_SIG(expect_jmp): back to the sigsetjmp of the EXPECT_SIGNAL wrapper,
\* which skips the rest of the block and returns to the body.
JumpToExpect ==
    IF pc = "body" /\ expect_jmp.live
    THEN /\ pc' = "body"
         /\ bpc' = CurBody[expect_jmp.blk].end + 1
         /\ blocks' = SelectSeq(blocks, LAMBDA b : b < expect_jmp.blk)
         /\ expect_jmp' = [expect_jmp EXCEPT !.live = FALSE]
         /\ expected_signal' = 0
         /\ UNCHANGED << it, rep, out >>
    ELSE Undefined

\* tests[index].name, read by the handler: out of bounds when index is no position
\* of tests; the line then names garbage (unit 0), or the read faults.
ReportAndJump(status, cause, sig, text) ==
    IF index < NumTests
    THEN JumpToRun(<< Line(index + 1, status, cause, sig, text) >>)
    ELSE \/ JumpToRun(<< Line(0, status, cause, sig, text) >>)
         \/ Undefined

\* The text of print_signal(test, sig, address); the address is si_addr.
print_signal(sig) ==
    "Error: Received " \o get_signal_name(sig) \o " (#" \o ToString(sig)
        \o ") while trying to access: 0x<si_addr>!"

\* signal_handler without the test of expected_signal: every signal is reported.
handler_without_expectation(sig) ==
    IF sig = SIGALRM /\ fail_on_alarm
    THEN ReportAndJump("failed", "timeout", sig, "Timeout reached!")
    ELSE ReportAndJump("failed", "signal", sig, print_signal(sig))

\* signal_handler(sig), with handle_shared_signal(sig) inlined.
signal_handler(sig) ==
    IF sig = SIGALRM /\ fail_on_alarm
    THEN ReportAndJump("failed", "timeout", sig, "Timeout reached!")
    ELSE IF expected_signal = sig
    THEN JumpToExpect
    ELSE ReportAndJump("failed", "signal", sig, print_signal(sig))

\* Delivery of sig to the process, by its disposition.  `ignored` is what happens
\* when the signal is ignored.
Deliver(sig, ignored) ==
    CASE disposition[sig] = "handler" -> signal_handler(sig)
      [] disposition[sig] = "ignore" -> ignored
      [] OTHER -> Killed

(***************************************************************************)
(* test::run: what the catch clauses make of an exception thrown by the    *)
(* body.  An exception is [kind, what]; kinds are test_error, test_skip,   *)
(* std (derived from std::exception), cstr, int, long and custom.          *)
(***************************************************************************)
Exc(kind, what) == [kind |-> kind, what |-> what]

\* handler.call(ptr): what the handler raises for the exception.
handler_call(h, exc) ==
    CASE h = "translate" ->
            IF exc.kind = "custom"
            THEN Exc("test_error", FailMessage(StrVal("Custom " \o exc.what), 119))
            ELSE exc
      [] h = "catchall" -> Exc("test_error", FailMessage(StrVal("Anything"), 125))
      [] h = "throws" -> Exc("int", "1")
      [] OTHER -> Exc("none", "")

\* The loop over the handlers with the last test_error raised as its result.
RECURSIVE TryLastHandler(_, _)
TryLastHandler(i, exc) ==
    IF i > Len(handlers) THEN Exc("none", "")
    ELSE IF TryLastHandler(i + 1, exc).kind = "test_error"
         THEN TryLastHandler(i + 1, exc)
         ELSE handler_call(handlers[i], exc)

\* The loop over the handlers left by whatever the first handler raises.
TryFirstHandler(i, exc) ==
    IF i > Len(handlers) THEN Exc("none", "")
    ELSE handler_call(handlers[i], exc)

\* for (const handler& handler : handlers): the first test_error raised wins.
RECURSIVE TryHandlers(_, _)
TryHandlers(i, exc) ==
    IF i > Len(handlers) THEN Exc("none", "")
    ELSE IF handler_call(handlers[i], exc).kind = "test_error"
         THEN handler_call(handlers[i], exc)
         ELSE TryHandlers(i + 1, exc)

\* The positions of the handlers the loop calls, in the order of the calls.
RECURSIVE HandlersCalled(_, _)
HandlersCalled(i, exc) ==
    IF i > Len(handlers) THEN << >>
    ELSE IF handler_call(handlers[i], exc).kind = "test_error"
         THEN << i >>
         ELSE << i >> \o HandlersCalled(i + 1, exc)

\* The last resort of test::run: std::rethrow_exception(ptr) and its catch clauses.
Unregistered(exc) ==
    "Unregistered exception thrown! " \o
    ( CASE exc.kind = "cstr" -> "Error: " \o exc.what
        [] exc.kind = "int" -> "Error: (int) " \o exc.what
        [] exc.kind = "long" -> "Error: (long) " \o exc.what
        [] OTHER -> "Error: unknown" )

\* Classify with the handlers consulted for exceptions derived from
\* std::exception as well.
ClassifyHandlersFirst(exc) ==
    CASE exc.kind = "test_skip" ->
            [ret |-> TRUE,
             line |-> Line(it, "skipped", "skip", 0,
                           IF print_skip_reason THEN " " \o exc.what ELSE "")]
      [] exc.kind = "test_error" ->
            [ret |-> FALSE,
             line |-> Line(it, "failed", "assert", 0, "Error: " \o exc.what)]
      [] OTHER ->
            IF TryHandlers(1, exc).kind = "test_error"
            THEN [ret |-> FALSE,
                  line |-> [Line(it, "failed", "handler", 0,
                                 "Error: " \o TryHandlers(1, exc).what)
                               EXCEPT !.tried = HandlersCalled(1, exc)]]
            ELSE [ret |-> FALSE,
                  line |-> [Line(it, "failed", "exception", 0,
                                 "Exception: " \o exc.what)
                               EXCEPT !.tried = HandlersCalled(1, exc)]]

\* The line test::run prints for the exception, and what it returns.
Classify(exc) ==
    CASE exc.kind = "test_skip" ->
            [ret |-> TRUE,
             line |-> Line(it, "skipped", "skip", 0,
                           IF print_skip_reason THEN " " \o exc.what ELSE "")]
      [] exc.kind = "test_error" ->
            [ret |-> FALSE,
             line |-> Line(it, "failed", "assert", 0, "Error: " \o exc.what)]
      [] exc.kind = "std" ->
            [ret |-> FALSE,
             line |-> Line(it, "failed", "exception", 0, "Exception: " \o exc.what)]
      [] OTHER ->
            IF TryHandlers(1, exc).kind = "test_error"
            THEN [ret |-> FALSE,
                  line |-> [Line(it, "failed", "handler", 0,
                                 "Error: " \o TryHandlers(1, exc).what)
                               EXCEPT !.tried = HandlersCalled(1, exc)]]
            ELSE [ret |-> FALSE,
                  line |-> [Line(it, "failed", "unregistered", 0, Unregistered(exc))
                               EXCEPT !.tried = HandlersCalled(1, exc)]]

\* The exception leaves the body (the EXPECT_SIGNAL wrappers catch nothing) and is
\* caught in test::run, which prints its line and returns.
Throw(exc) ==
    /\ pc' = IF Classify(exc).ret THEN "ret_true" ELSE "ret_false"
    /\ out' = Append(out, Classify(exc).line)
    /\ rep' = 0
    /\ bpc' = 0
    /\ blocks' = << >>
    /\ expect_jmp' = [expect_jmp EXCEPT !.live = FALSE]
    /\ UNCHANGED << it, expected_signal >>

\* vstl::fail(message)
fail(message) ==
    IF trigger_debugger
    THEN Deliver(SIGTRAP, Throw(Exc("test_error", message)))
    ELSE Throw(Exc("test_error", message))

\* vstl::skip(message)
skip(message) == Throw(Exc("test_skip", message))

(***************************************************************************)
(* Actions.                                                                *)
(***************************************************************************)
config == << tests, handlers, count, trigger_debugger, print_skip_reason, mode >>
counters == << index, failed, successful, skipped >>
control == << pc, it, rep, bpc, blocks, expected_signal, expect_jmp, out >>

\* vstl::init
\* init with catch_signal(SIGTRAP) in the place of signal(SIGTRAP, SIG_IGN).
init_catching_trap ==
    /\ pc = "main"
    /\ disposition' = [s \in Signals |-> "handler"]
    /\ pc' = "run"
    /\ UNCHANGED << config, counters, timer, fail_on_alarm, expected_signal, jmp,
                    expect_jmp, it, rep, bpc, blocks, out, executed_out,
                    exit_code, tally >>

init ==
    /\ pc = "main"
    /\ disposition' =
          [s \in Signals |->
              IF s \in {SIGALRM, SIGSEGV, SIGILL, SIGFPE, SIGABRT, SIGTERM}
              THEN "handler"
              ELSE IF s = SIGTRAP /\ trigger_debugger THEN "ignore"
              ELSE disposition[s]]
    /\ pc' = "run"
    /\ UNCHANGED << config, counters, timer, fail_on_alarm, expected_signal, jmp,
                    expect_jmp, it, rep, bpc, blocks, out, executed_out,
                    exit_code, tally >>

\* vstl::run, up to the loop
run_begin ==
    /\ pc = "run"
    /\ index' = 0
    /\ successful' = 0
    /\ failed' = 0
    /\ skipped' = 0
    /\ it' = 1
    /\ pc' = "loop"
    /\ UNCHANGED << config, disposition, timer, fail_on_alarm, expected_signal,
                    jmp, expect_jmp, rep, bpc, blocks, out, executed_out,
                    exit_code, tally >>

\* for (const test& test : tests): the loop test, and the sigsetjmp of the iteration
run_loop ==
    /\ pc = "loop"
    /\ IF it = EndIt
       THEN pc' = "summary" /\ UNCHANGED jmp
       ELSE IF it \in 1..NumTests
       THEN pc' = "call" /\ jmp' = it
       ELSE pc' = "undefined" /\ UNCHANGED jmp
    /\ rep' = 0
    /\ UNCHANGED << config, counters, disposition, timer, fail_on_alarm,
                    expected_signal, expect_jmp, it, bpc, blocks, out,
                    executed_out, exit_code, tally >>

\* test::call without set_timeout(0) and the two resets before func(*this).
test_call_without_reset ==
    /\ pc = "call"
    /\ IF rep < count
       THEN /\ pc' = "body"
            /\ bpc' = 1
            /\ tally' = Bump("invoked")
            /\ UNCHANGED out
       ELSE /\ pc' = "ret_true"
            /\ out' = Append(out, Line(it, "successful", "success", 0, ""))
            /\ bpc' = 0
            /\ UNCHANGED tally
    /\ blocks' = << >>
    /\ UNCHANGED << config, counters, disposition, jmp, expect_jmp, it, rep,
                    executed_out, exit_code, timer, fail_on_alarm,
                    expected_signal >>

\* test::call: one turn of its loop, up to the call of the body; after the last
\* turn test::run prints the success line (VSTL_PRINT_SUCCESS is true) and
\* returns true
test_call ==
    /\ pc = "call"
    /\ IF rep < count
       THEN /\ timer' = 0
            /\ fail_on_alarm' = FALSE
            /\ expected_signal' = 0
            /\ pc' = "body"
            /\ bpc' = 1
            /\ tally' = Bump("invoked")
            /\ UNCHANGED out
       ELSE /\ pc' = "ret_true"
            /\ out' = Append(out, Line(it, "successful", "success", 0, ""))
            /\ bpc' = 0
            /\ UNCHANGED << timer, fail_on_alarm, expected_signal, tally >>
    /\ blocks' = << >>
    /\ UNCHANGED << config, counters, disposition, jmp, expect_jmp, it, rep,
                    executed_out, exit_code >>

\* the body returns: next turn of the loop of test::call
body_return ==
    /\ pc = "body"
    /\ bpc = Len(CurBody) + 1
    /\ rep' = rep + 1
    /\ pc' = "call"
    /\ bpc' = 0
    /\ UNCHANGED << config, counters, disposition, timer, fail_on_alarm,
                    expected_signal, jmp, expect_jmp, it, blocks, out,
                    executed_out, exit_code, tally >>

body_nop ==
    /\ AtInstr("NOP")
    /\ bpc' = bpc + 1
    /\ UNCHANGED << config, counters, disposition, timer, fail_on_alarm,
                    expected_signal, jmp, expect_jmp, pc, it, rep, blocks, out,
                    executed_out, exit_code, tally >>

\* TIMEOUT(seconds): vstl::set_timeout(seconds * 1000)
body_timeout ==
    /\ AtInstr("TIMEOUT")
    /\ fail_on_alarm' = (CurInstr.arg.num * 1000 # 0)
    /\ timer' = ((CurInstr.arg.num * 1000) \div 1000) * 1000
                + ((CurInstr.arg.num * 1000) % 1000)
    /\ bpc' = bpc + 1
    /\ UNCHANGED << config, counters, disposition, expected_signal, jmp,
                    expect_jmp, pc, it, rep, blocks, out, executed_out,
                    exit_code, tally >>

\* EXPECT_SIGNAL(signum): the wrapper up to the call of inner()
body_expect_signal ==
    /\ AtInstr("EXPECT_SIGNAL")
    /\ expected_signal' = CurInstr.sig
    /\ expect_jmp' = [blk |-> bpc, live |-> TRUE]
    /\ blocks' = Append(blocks, bpc)
    /\ bpc' = bpc + 1
    /\ UNCHANGED << config, counters, disposition, timer, fail_on_alarm, jmp, pc,
                    it, rep, out, executed_out, exit_code, tally >>

\* body_expect_end without the FAIL: the wrapper returns to the body.
expect_end_returns ==
    /\ AtInstr("END_SIGNAL")
    /\ bpc' = bpc + 1
    /\ blocks' = SubSeq(blocks, 1, Len(blocks) - 1)
    /\ UNCHANGED << config, counters, disposition, timer, fail_on_alarm,
                    expected_signal, jmp, expect_jmp, pc, it, rep, out,
                    executed_out, exit_code, tally >>

\* EXPECT_SIGNAL(signum): inner() returned, FAIL("Expected signal " #signum)
body_expect_end ==
    /\ AtInstr("END_SIGNAL")
    /\ fail(FailMessage(StrVal("Expected signal " \o SignalText(CurInstr.sig)),
                        CurInstr.line))
    /\ UNCHANGED << config, counters, disposition, timer, fail_on_alarm, jmp,
                    executed_out, exit_code, tally >>

\* FAIL(reason)
body_fail ==
    /\ AtInstr("FAIL")
    /\ fail(FailMessage(CurInstr.arg, CurInstr.line))
    /\ UNCHANGED << config, counters, disposition, timer, fail_on_alarm, jmp,
                    executed_out, exit_code, tally >>

\* FAIL(reason) in the invocation of the body that CurInstr names
body_flaky ==
    /\ AtInstr("FLAKY")
    /\ IF rep + 1 = CurInstr.arg.num
       THEN fail(FailMessage(StrVal("Flaky"), CurInstr.line))
       ELSE /\ bpc' = bpc + 1
            /\ UNCHANGED << pc, it, rep, blocks, expected_signal, expect_jmp, out >>
    /\ UNCHANGED << config, counters, disposition, timer, fail_on_alarm, jmp,
                    executed_out, exit_code, tally >>

\* SKIP(reason), and the skipped ++ of the catch clause of test::run
body_skip ==
    /\ AtInstr("SKIP")
    /\ skip(FailMessage(CurInstr.arg, CurInstr.line))
    /\ skipped' = skipped + 1
    /\ UNCHANGED << config, index, failed, successful, disposition, timer,
                    fail_on_alarm, jmp, executed_out, exit_code, tally >>

\* The EXPECT_ANY blocks of the running body that are on the stack.
AnyBlocks == {i \in 1..Len(blocks) : CurBody[blocks[i]].op = "EXPECT_ANY"}
InAny == pc = "body" /\ AnyBlocks # {}

\* The innermost of them, as a position of blocks.
InnerAny == CHOOSE i \in AnyBlocks : \A j \in AnyBlocks : j <= i

\* EXPECT_ANY(): the wrapper up to the call of inner()
body_expect_any ==
    /\ AtInstr("EXPECT_ANY")
    /\ blocks' = Append(blocks, bpc)
    /\ bpc' = bpc + 1
    /\ UNCHANGED << config, counters, disposition, timer, fail_on_alarm,
                    expected_signal, jmp, expect_jmp, pc, it, rep, out,
                    executed_out, exit_code, tally >>

\* EXPECT_ANY(): inner() returned, FAIL(VSTL_EXCEPT)
body_any_end ==
    /\ AtInstr("END_ANY")
    /\ fail(FailMessage(StrVal("Expected exception"), CurInstr.line))
    /\ UNCHANGED << config, counters, disposition, timer, fail_on_alarm, jmp,
                    executed_out, exit_code, tally >>

\* throw of a user exception inside an EXPECT_ANY block: catch (...) {} of the
\* innermost wrapper swallows it and the body goes on after the block.  The
\* wrappers called inside that block have returned: the sigsetjmp context of an
\* EXPECT_SIGNAL among them is dead, and nothing touches expected_signal.
body_throw_caught ==
    /\ AtInstr("THROW")
    /\ InAny
    /\ bpc' = CurBody[blocks[InnerAny]].end + 1
    /\ blocks' = SubSeq(blocks, 1, InnerAny - 1)
    /\ expect_jmp' = IF expect_jmp.blk > blocks[InnerAny]
                     THEN [expect_jmp EXCEPT !.live = FALSE]
                     ELSE expect_jmp
    /\ UNCHANGED << config, counters, disposition, timer, fail_on_alarm,
                    expected_signal, jmp, pc, it, rep, out, executed_out,
                    exit_code, tally >>

\* throw of a user exception
body_throw ==
    /\ AtInstr("THROW")
    /\ ~InAny
    /\ Throw(Exc(CurInstr.exc, CurInstr.arg.str))
    /\ UNCHANGED << config, counters, disposition, timer, fail_on_alarm, jmp,
                    executed_out, exit_code, tally >>

\* the body raises a signal
body_raise ==
    /\ AtInstr("RAISE")
    /\ Deliver(CurInstr.sig,
               bpc' = bpc + 1
               /\ UNCHANGED << pc, it, rep, blocks, expected_signal, expect_jmp, out >>)
    /\ UNCHANGED << config, counters, disposition, timer, fail_on_alarm, jmp,
                    executed_out, exit_code, tally >>

\* the interval timer expires: SIGALRM is delivered, wherever the process is
timer_expire ==
    /\ timer > 0
    /\ pc \notin Stopped
    /\ timer' = 0
    /\ Deliver(SIGALRM, UNCHANGED control)
    /\ UNCHANGED << config, counters, disposition, fail_on_alarm, jmp,
                    executed_out, exit_code, tally >>

\* run with the test run again after the jump, in the place of goto skip.
run_signalled_retries ==
    /\ pc = "jmp_ret"
    /\ failed' = failed + 1
    /\ tally' = Bump("failed")
    /\ pc' = "call"
    /\ UNCHANGED << config, index, successful, skipped, disposition, timer,
                    fail_on_alarm, expected_signal, jmp, expect_jmp, it, rep, bpc,
                    blocks, out, executed_out, exit_code >>

\* run: if (VSTL_JMP_SET(jmp)) { failed ++; goto skip; }
run_signalled ==
    /\ pc = "jmp_ret"
    /\ failed' = failed + 1
    /\ tally' = Bump("failed")
    /\ pc' = "skip"
    /\ UNCHANGED << config, index, successful, skipped, disposition, timer,
                    fail_on_alarm, expected_signal, jmp, expect_jmp, it, rep, bpc,
                    blocks, out, executed_out, exit_code >>

\* run: if (!test.run(out)) { failed ++; goto skip; }
run_failed ==
    /\ pc = "ret_false"
    /\ failed' = failed + 1
    /\ tally' = Bump("failed")
    /\ pc' = "skip"
    /\ UNCHANGED << config, index, successful, skipped, disposition, timer,
                    fail_on_alarm, expected_signal, jmp, expect_jmp, it, rep, bpc,
                    blocks, out, executed_out, exit_code >>

\* run: successful ++
run_successful ==
    /\ pc = "ret_true"
    /\ successful' = successful + 1
    /\ tally' = Bump("successful")
    /\ pc' = "skip"
    /\ UNCHANGED << config, index, failed, skipped, disposition, timer,
                    fail_on_alarm, expected_signal, jmp, expect_jmp, it, rep, bpc,
                    blocks, out, executed_out, exit_code >>

\* run: skip: index ++
run_skip ==
    /\ pc = "skip"
    /\ index' = index + 1
    /\ pc' = "next"
    /\ UNCHANGED << config, failed, successful, skipped, disposition, timer,
                    fail_on_alarm, expected_signal, jmp, expect_jmp, it, rep, bpc,
                    blocks, out, executed_out, exit_code, tally >>

\* run: the increment of the range-for iterator
run_next ==
    /\ pc = "next"
    /\ it' = it + 1
    /\ pc' = "loop"
    /\ UNCHANGED << config, counters, disposition, timer, fail_on_alarm,
                    expected_signal, jmp, expect_jmp, rep, bpc, blocks, out,
                    executed_out, exit_code, tally >>

\* summary printing the successful counter as it is, skipped tests included.
summary_with_skipped ==
    /\ pc = "summary"
    /\ executed_out' = Append(executed_out,
                              [executed |-> failed + successful,
                               failed |-> failed,
                               succeeded |-> [wrapped |-> FALSE, value |-> successful]])
    /\ pc' = "returned"
    /\ UNCHANGED << config, counters, disposition, timer, fail_on_alarm,
                    expected_signal, jmp, expect_jmp, it, rep, bpc, blocks, out,
                    exit_code, tally >>

\* vstl::summary, and the return of run
summary ==
    /\ pc = "summary"
    /\ executed_out' = Append(executed_out,
                              [executed |-> failed + successful,
                               failed |-> failed,
                               succeeded |-> SizeSub(successful, skipped)])
    /\ pc' = "returned"
    /\ UNCHANGED << config, counters, disposition, timer, fail_on_alarm,
                    expected_signal, jmp, expect_jmp, it, rep, bpc, blocks, out,
                    exit_code, tally >>

\* The number of failed tests as the exit code.
exit_code_counts == failed

\* vstl::get_exit_code
get_exit_code == IF failed # 0 THEN 1 ELSE 0

\* main: return vstl::get_exit_code()
main_return ==
    /\ pc = "returned"
    /\ exit_code' = get_exit_code
    /\ pc' = "exit"
    /\ UNCHANGED << config, counters, disposition, timer, fail_on_alarm,
                    expected_signal, jmp, expect_jmp, it, rep, bpc, blocks, out,
                    executed_out, tally >>

Next ==
    \/ init
    \/ run_begin
    \/ run_loop
    \/ test_call
    \/ body_return
    \/ body_nop
    \/ body_timeout
    \/ body_expect_signal
    \/ body_expect_end
    \/ body_fail
    \/ body_flaky
    \/ body_skip
    \/ body_throw
    \/ body_raise
    \/ timer_expire
    \/ run_signalled
    \/ run_failed
    \/ run_successful
    \/ run_skip
    \/ run_next
    \/ summary
    \/ main_return

Spec == Init /\ [][Next]_vars

(***************************************************************************)
(* What the claims speak of.                                               *)
(***************************************************************************)
Units == 1..NumTests

\* run() has printed the summary.
SummaryEmitted == pc \in {"returned", "exit"}

\* The process was terminated, or left defined behaviour.
Crashed == pc \in {"killed", "undefined"}

\* The result lines that name test u.
LinesOf(u) == {k \in 1..Len(out) : out[k].unit = u}

\* The result lines with the given cause printed while the loop was at test u.
CausedAt(u, cause) == {k \in 1..Len(out) : out[k].at = u /\ out[k].cause = cause}

\* The body of test u raised a fatal signal that no expectation matched.
Fatal(u) == \E k \in CausedAt(u, "signal") : out[k].sig \in FatalSignals

\* The number of times test u was counted, in failed or in successful.
Counted(u) == tally[u].failed + tally[u].successful

\* C1: a test whose body raises an unmatched fatal signal does not stop run():
\* once the summary is out the test was counted as failed and the body of every
\* later test was invoked.
C1_CrashIsolation ==
    SummaryEmitted =>
        \A u \in Units :
            Fatal(u) =>
                /\ tally[u].failed >= 1
                /\ \A j \in (u + 1)..NumTests : tally[j].invoked >= 1

\* C2: when run() is through, every test had its body invoked and was processed
\* exactly once, whatever the outcomes of the tests before it.
C2_EveryUnitOnce ==
    SummaryEmitted =>
        \A u \in Units : tally[u].invoked \in 1..count /\ Counted(u) = 1

\* C3: a test is never counted twice nor reported twice, and once run() is through
\* every test was counted exactly once and has exactly one result line.
C3_OneOutcome ==
    \A u \in Units :
        /\ Counted(u) <= 1
        /\ Cardinality(LinesOf(u)) <= 1
        /\ SummaryEmitted => Counted(u) = 1 /\ Cardinality(LinesOf(u)) = 1

\* C4: the summary reports as many executed tests as are registered, and no
\* failed test when no failure was reported.
C4_ExecutedCount ==
    SummaryEmitted =>
        /\ executed_out[1].executed = NumTests
        /\ failed + successful = NumTests
        /\ (\A k \in 1..Len(out) : out[k].status # "failed") =>
              executed_out[1].failed = 0

\* s contains t.
Contains(s, t) ==
    \E i \in 1..(Len(s) - Len(t) + 1) : SubSeq(s, i, i + Len(t) - 1) = t

\* The last result line printed.
LastLine == out[Len(out)]

\* This step is the expiry of the interval timer (test::call and TIMEOUT(0) also
\* stop the timer, and clear fail_on_alarm with it).
Expired == timer > 0 /\ timer' = 0 /\ fail_on_alarm'

\* The step adds exactly one result line.
OneMoreLine == Len(out') = Len(out) + 1 /\ SubSeq(out', 1, Len(out)) = out

\* The timer expired while the body of test u was running.
TimedOutInBody(u) ==
    \E k \in CausedAt(u, "timeout") : out[k].where = "body"

\* C7: a test whose body is running when its timer expires is abandoned at the
\* expiry and reported as failed with the timeout reason under its own name; once
\* run() is through it was counted in failed exactly once and the body of every
\* later test was invoked.
C7_TimeoutFailsUnit ==
    /\ [][ (Expired /\ pc = "body") =>
              /\ pc' = "jmp_ret"
              /\ OneMoreLine
              /\ out'[Len(out')].unit = it
              /\ out'[Len(out')].status = "failed"
              /\ out'[Len(out')].text = "Timeout reached!" ]_vars
    /\ [](SummaryEmitted =>
              \A u \in Units :
                  TimedOutInBody(u) =>
                      /\ tally[u].failed = 1
                      /\ tally[u].successful = 0
                      /\ \A j \in (u + 1)..NumTests : tally[j].invoked >= 1)

\* C8: when the last thing a test printed is its success line (its body completed
\* normally) and the process is not in a body, an expiry of the timer is not
\* fatal: it prints nothing, changes no counter and leaves run() where it is.
C8_ConsumedTimeoutHarmless ==
    [][ ( /\ Expired
          /\ pc \in InRun \ {"body"}
          /\ Len(out) > 0
          /\ LastLine.cause = "success" ) =>
            /\ out' = out
            /\ UNCHANGED << pc, it, index, failed, successful, skipped >> ]_vars

\* C9: a SIGALRM raised while fail_on_alarm is false (and not expected by an
\* EXPECT_SIGNAL block) does not abandon the running test and prints no failure.
C9_UnarmedAlarmNotFatal ==
    [][ ( /\ AtInstr("RAISE")
          /\ CurInstr.sig = SIGALRM
          /\ ~fail_on_alarm
          /\ expected_signal # SIGALRM ) =>
            /\ pc' = "body"
            /\ out' = out ]_vars

\* The signals the body raises within an EXPECT_SIGNAL block are all expected
\* there, every block raises its signal right away, and the body does nothing else
\* that touches the harness.
OnlyMatched(body) ==
    /\ \A i \in 1..Len(body) :
          body[i].op \in {"NOP", "RAISE", "EXPECT_SIGNAL", "END_SIGNAL"}
    /\ \E i \in 1..Len(body) : body[i].op = "EXPECT_SIGNAL"
    /\ \A i \in 1..Len(body) :
          body[i].op = "EXPECT_SIGNAL" =>
              /\ i < Len(body)
              /\ body[i + 1].op = "RAISE"
              /\ body[i + 1].sig = body[i].sig
              /\ body[i].sig # SIGALRM
    /\ \A i \in 1..Len(body) :
          body[i].op = "RAISE" => i > 1 /\ body[i - 1].op = "EXPECT_SIGNAL"

\* This step is the body raising the very signal its EXPECT_SIGNAL block expects.
MatchedRaise ==
    /\ AtInstr("RAISE")
    /\ blocks # << >>
    /\ CurInstr.sig = expected_signal
    /\ ~(CurInstr.sig = SIGALRM /\ fail_on_alarm)
    /\ ~Expired

\* C5: when the body raises the signal its EXPECT_SIGNAL block expects, the rest of
\* the block is abandoned and the body goes on with the statement after the block,
\* with the expectation cleared, nothing printed and no counter changed; a test
\* whose body was invoked and does nothing else that can fail is counted
\* successful once, never failed, and has its success line.
C5_MatchedSignalContinues ==
    /\ [][ MatchedRaise =>
              /\ pc' = "body"
              /\ bpc' = CurBody[blocks[Len(blocks)]].end + 1
              /\ blocks' = SubSeq(blocks, 1, Len(blocks) - 1)
              /\ expected_signal' = 0
              /\ out' = out
              /\ UNCHANGED << it, index, failed, successful, skipped >> ]_vars
    /\ [](SummaryEmitted =>
              \A u \in Units :
                  (OnlyMatched(tests[u]) /\ tally[u].invoked >= 1) =>
                      /\ tally[u].successful = 1
                      /\ tally[u].failed = 0
                      /\ \E k \in LinesOf(u) :
                            out[k].at = u /\ out[k].status = "successful")

\* A test that only raises the signal it expects went through run().
C5_Witness ==
    /\ SummaryEmitted
    /\ \E u \in Units :
          /\ OnlyMatched(tests[u])
          /\ tally[u].invoked = 1
          /\ tally[u].successful = 1

\* The failure lines printed for test u while its body was inside an EXPECT_SIGNAL
\* block whose signal had not come: by the wrapper (cause "assert": the block ended
\* without a signal) or by the handler (cause "signal": another signal was raised).
Unmatched(u, cause) ==
    {k \in CausedAt(u, cause) :
        out[k].where = "body" /\ out[k].expected # 0 /\ out[k].status = "failed"}

Asserted(u) == {k \in CausedAt(u, "assert") : out[k].expected = 0}

InitSkip ==
    \E ts \in TestLists, psr \in BOOLEAN :
        InitWith(ts, << >>, VSTL_TEST_COUNT, VSTL_TRIGGER_DEBUGGER, psr)

SpecSkip == InitSkip /\ [][Next]_vars

\* C11: a test whose body calls SKIP is reported as skipped under its own name,
\* with its reason exactly when VSTL_PRINT_SKIP_REASON is true; the step adds one
\* to skipped and nothing to failed, and the test is never counted as failed.
C11_SkipNeverFails ==
    /\ [][ (AtInstr("SKIP") /\ ~Expired) =>
              /\ pc' = "ret_true"
              /\ OneMoreLine
              /\ out'[Len(out')].unit = it
              /\ out'[Len(out')].status = "skipped"
              /\ (out'[Len(out')].text # "") <=> print_skip_reason
              /\ skipped' = skipped + 1
              /\ failed' = failed ]_vars
    /\ [](\A u \in Units : CausedAt(u, "skip") # {} => tally[u].failed = 0)

\* No registered test arms a timeout.
NoTimeouts ==
    \A u \in Units : \A i \in 1..Len(tests[u]) : tests[u][i].op # "TIMEOUT"

\* The tests that have a result line with the given status.
ReportedAs(status) ==
    {u \in Units : \E k \in LinesOf(u) : out[k].status = status}

C13_SkippedWithinSuccessful ==
    /\ pc \in {"loop", "summary", "returned", "exit"} => skipped <= successful
    /\ SummaryEmitted => ~executed_out[1].succeeded.wrapped

\* C14: the value main returns is 1 when failed is not zero and 0 when it is zero,
\* whatever the number and the causes of the failures; it is not zero exactly when
\* a failure line was printed.
C14_ExitCode ==
    pc = "exit" =>
        /\ exit_code \in {0, 1}
        /\ exit_code = 0 <=> failed = 0
        /\ exit_code = 1 <=> failed >= 1
        /\ exit_code # 0 <=> \E k \in 1..Len(out) : out[k].status = "failed"

\* main returned after a run with two failures, one by a signal, one by a timeout.
C14_Witness ==
    /\ pc = "exit"
    /\ exit_code = 1
    /\ failed = 2
    /\ \E k \in 1..Len(out) : out[k].cause = "signal"
    /\ \E k \in 1..Len(out) : out[k].cause = "timeout" /\ out[k].where = "body"

(***************************************************************************)
(* The harness built with a VSTL_TEST_COUNT above 1.                       *)
(***************************************************************************)
InitRepeat ==
    \E ts \in TestLists, k \in 2..MaxCount :
        InitWith(ts, << >>, k, VSTL_TRIGGER_DEBUGGER, VSTL_PRINT_SKIP_REASON)

SpecRepeat == InitRepeat /\ [][Next]_vars

\* The result lines printed while the loop was at test u.
LinesAt(u) == {k \in 1..Len(out) : out[k].at = u}

\* C15: with VSTL_TEST_COUNT = K the body of a test is never invoked more than K
\* times; a test that did not skip is counted successful only after K
\* invocations; a test whose body failed in its K-th invocation only is counted
\* failed exactly once, never successful, and has a single result line.
C15_Repetition ==
    \A u \in Units :
        /\ tally[u].invoked <= count
        /\ (tally[u].successful >= 1 /\ CausedAt(u, "skip") = {}) =>
              tally[u].invoked = count
        /\ ( /\ SummaryEmitted
             /\ tally[u].invoked = count
             /\ \E k \in LinesAt(u) :
                   out[k].status = "failed" /\ out[k].where = "body" ) =>
              /\ tally[u].failed = 1
              /\ tally[u].successful = 0
              /\ Cardinality(LinesAt(u)) = 1

(***************************************************************************)
(* A test file with one test and any registration of error handlers.       *)
(***************************************************************************)
InitHandlers ==
    \E b \in Bodies, hs \in HandlerSeqs :
        InitWith(<< b >>, hs, VSTL_TEST_COUNT, VSTL_TRIGGER_DEBUGGER,
                 VSTL_PRINT_SKIP_REASON)

SpecHandlers == InitHandlers /\ [][Next]_vars

\* Handler h, as written, turns an exception of this kind into a test_error.
Translates(h, kind) == h = "catchall" \/ (h = "translate" /\ kind = "custom")

\* The reason of the test_error handler h raises for an exception with text what.
ReasonOf(h, what) ==
    IF h = "translate" THEN "Custom " \o what \o ", on line 119!"
    ELSE "Anything, on line 125!"

\* The first registered handler that translates exceptions of this kind.
FirstTranslator(kind) ==
    CHOOSE i \in 1..Len(handlers) :
        /\ Translates(handlers[i], kind)
        /\ \A j \in 1..(i - 1) : ~Translates(handlers[j], kind)

\* This step is the body throwing an exception that is neither a test_error, a
\* test_skip nor derived from std::exception.
ForeignThrow == AtInstr("THROW") /\ CurInstr.exc # "std" /\ ~Expired

\* C16: when the body throws a foreign exception and some handler translates it,
\* the handlers are called in registration order up to the first that raises a
\* test_error and none after it; the test is reported failed with the reason of
\* that handler.
C16_FirstHandlerWins ==
    [][ (ForeignThrow /\ \E i \in 1..Len(handlers) :
                            Translates(handlers[i], CurInstr.exc)) =>
          /\ pc' = "ret_false"
          /\ OneMoreLine
          /\ out'[Len(out')].unit = it
          /\ out'[Len(out')].status = "failed"
          /\ out'[Len(out')].text =
                "Error: " \o ReasonOf(handlers[FirstTranslator(CurInstr.exc)],
                                      CurInstr.arg.str)
          /\ out'[Len(out')].tried =
                [j \in 1..FirstTranslator(CurInstr.exc) |-> j] ]_vars

\* Two handlers translate the exception; the first decided and the second was
\* not called.
C16_Witness ==
    /\ Len(handlers) = 2
    /\ handlers[1] # handlers[2]
    /\ \A i \in 1..2 : Translates(handlers[i], "custom")
    /\ \E k \in 1..Len(out) :
          /\ out[k].cause = "handler"
          /\ out[k].tried = << 1 >>
          /\ out[k].text = "Error: " \o ReasonOf(handlers[1], "42")

\* The text test::run prints when no handler translated the exception.
FallbackText(kind, what) ==
    "Unregistered exception thrown! Error: "
        \o ( CASE kind = "int" -> "(int) " \o what
               [] kind = "long" -> "(long) " \o what
               [] kind = "cstr" -> what
               [] OTHER -> "unknown" )

\* C17: a handler that raises something else than a test_error, or returns, does
\* not decide: the handler registered after it is called next; when no handler
\* translates the exception all of them were called, test::run prints the
\* fallback line and returns false, and nothing a handler raised leaves test::run.
C17_OtherErrorsDiscarded ==
    [][ ForeignThrow =>
          /\ pc' = "ret_false"
          /\ OneMoreLine
          /\ out'[Len(out')].status = "failed"
          /\ \A j \in 1..Len(handlers) :
                (\A i \in 1..j : ~Translates(handlers[i], CurInstr.exc)) =>
                    /\ j <= Len(out'[Len(out')].tried)
                    /\ out'[Len(out')].tried[j] = j
                    /\ j < Len(handlers) =>
                          /\ j + 1 <= Len(out'[Len(out')].tried)
                          /\ out'[Len(out')].tried[j + 1] = j + 1
                    /\ (j < Len(handlers)
                          /\ Translates(handlers[j + 1], CurInstr.exc)) =>
                          out'[Len(out')].text =
                              "Error: " \o ReasonOf(handlers[j + 1], CurInstr.arg.str)
          /\ (\A i \in 1..Len(handlers) : ~Translates(handlers[i], CurInstr.exc)) =>
                /\ out'[Len(out')].tried = [j \in 1..Len(handlers) |-> j]
                /\ out'[Len(out')].text =
                      FallbackText(CurInstr.exc, CurInstr.arg.str) ]_vars

\* A handler that throws was followed by one that translated the exception.
C17_Witness ==
    /\ Len(handlers) = 2
    /\ handlers[1] \in {"throws", "returns"}
    /\ \E k \in 1..Len(out) :
          /\ out[k].cause = "handler"
          /\ out[k].tried = << 1, 2 >>
          /\ out[k].text = "Error: " \o ReasonOf(handlers[2], "42")
    /\ pc = "exit"

\* C18 as the specification has it: for every exception of the body that is
\* neither a test_error nor a test_skip, those derived from std::exception
\* included, the registered handlers are called before the fallback line.
C18_HandlersAlwaysConsulted ==
    [][ (AtInstr("THROW") /\ ~Expired /\ Len(handlers) > 0) =>
          /\ OneMoreLine
          /\ Len(out'[Len(out')].tried) > 0
          /\ out'[Len(out')].tried[1] = 1 ]_vars

\* C18, amended: the registered handlers are called, in registration order from
\* the first, for every exception of the body that is neither a test_error, a
\* test_skip nor derived from std::exception, before the fallback line is printed;
\* an exception derived from std::exception is reported with "Exception: " and
\* its what() and no handler is called for it.
C18_HandlersForForeignOnly ==
    /\ [][ (ForeignThrow /\ Len(handlers) > 0) =>
              /\ OneMoreLine
              /\ Len(out'[Len(out')].tried) > 0
              /\ \A j \in 1..Len(out'[Len(out')].tried) :
                    out'[Len(out')].tried[j] = j
              /\ out'[Len(out')].cause = "unregistered" =>
                    out'[Len(out')].tried = [j \in 1..Len(handlers) |-> j] ]_vars
    /\ [][ (AtInstr("THROW") /\ CurInstr.exc = "std" /\ ~Expired) =>
              /\ pc' = "ret_false"
              /\ OneMoreLine
              /\ out'[Len(out')].status = "failed"
              /\ out'[Len(out')].text = "Exception: " \o CurInstr.arg.str
              /\ out'[Len(out')].tried = << >> ]_vars

\* With a handler registered that translates anything, a std::runtime_error was
\* reported by its what(), and no handler was called.
C18_Witness ==
    /\ Len(handlers) > 0
    /\ handlers[1] = "catchall"
    /\ \E k \in 1..Len(out) :
          /\ out[k].text = "Exception: Error of a runtime type"
          /\ out[k].tried = << >>
    /\ pc = "exit"

(***************************************************************************)
(* vstl::run called again by the program after it returned.                *)
(***************************************************************************)

\* A further call of vstl::run().  The sigjmp_buf jmp still holds the context of
\* the call that returned: no sigsetjmp of the new call has filled it.
run_again ==
    /\ pc = "returned"
    /\ Len(executed_out) < MaxRuns
    /\ pc' = "run"
    /\ jmp' = 0
    /\ UNCHANGED << config, counters, disposition, timer, fail_on_alarm,
                    expected_signal, expect_jmp, it, rep, bpc, blocks, out,
                    executed_out, exit_code, tally >>

NextTwice == Next \/ run_again

SpecTwice == Init /\ [][NextTwice]_vars

\* C19: run() starts from index, failed, successful and skipped at 0, so two
\* runs over the same units print the same summary: the same number of tests
\* executed, failed and succeeded.
C19_RunsAgree ==
    \A r \in 2..Len(executed_out) : executed_out[r] = executed_out[1]

(***************************************************************************)
(* Version 3.1 of the library (the header in src/demo.cpp): run(out, mode). *)
(* Its globals are test_id (modelled by index), failed and successful; it  *)
(* has no skip, no timeout and no expected signal, and handles SIGSEGV only.*)
(***************************************************************************)
V31Bodies ==
    { vstl_final, vstl_fail, vstl_check, vstl_fault, vstl_throw, vstl_custom,
      throw_int }

V31TestLists == UNION { [1..n -> V31Bodies] : n \in 0..MaxUnits }

InitV31 ==
    \E ts \in V31TestLists, hs \in HandlerLists, m \in TestMode :
        InitMode(ts, hs, VSTL_TEST_COUNT, FALSE, FALSE, m)

v31_rest == << trigger_debugger, print_skip_reason, mode, tests, handlers, count,
               timer, skipped, fail_on_alarm, expected_signal, expect_jmp,
               blocks >>

\* The text Test::run prints after "Unregistered exception thrown! ".
v31_unregistered(exc) ==
    "Unregistered exception thrown! " \o
    ( CASE exc.kind = "std" -> "Error: " \o exc.what
        [] exc.kind = "cstr" -> "Error: " \o exc.what
        [] exc.kind = "int" -> "Error: (int) " \o exc.what
        [] OTHER -> "Error: unknown" )

\* run(out, mode), up to the loop: the SIGSEGV handler is installed
v31_run_begin ==
    /\ pc = "main"
    /\ disposition' = [disposition EXCEPT ![SIGSEGV] = "handler"]
    /\ it' = 1
    /\ pc' = "loop"
    /\ UNCHANGED << v31_rest, index, failed, successful, jmp, rep, bpc, out,
                    executed_out, exit_code, tally >>

\* for (const Test& test : tests): the loop test, and the sigsetjmp of the iteration
v31_run_loop ==
    /\ pc = "loop"
    /\ IF it = EndIt
       THEN pc' = "summary" /\ UNCHANGED jmp
       ELSE pc' = "call" /\ jmp' = it
    /\ rep' = 0
    /\ UNCHANGED << v31_rest, disposition, index, failed, successful, it, bpc,
                    out, executed_out, exit_code, tally >>

\* Test::call: one turn of its loop, up to the call of the body; after the last
\* turn Test::run prints the success line, counts the test and returns true
v31_test_call ==
    /\ pc = "call"
    /\ IF rep < count
       THEN /\ pc' = "body"
            /\ bpc' = 1
            /\ tally' = Bump("invoked")
            /\ UNCHANGED << out, successful >>
       ELSE /\ pc' = "ret_true"
            /\ out' = Append(out, Line(it, "successful", "success", 0, ""))
            /\ successful' = successful + 1
            /\ tally' = Bump("successful")
            /\ bpc' = 0
    /\ UNCHANGED << v31_rest, disposition, index, failed, jmp, it, rep,
                    executed_out, exit_code >>

\* the body returns: next turn of the loop of Test::call
v31_body_return ==
    /\ pc = "body"
    /\ bpc > Len(CurBody)
    /\ rep' = rep + 1
    /\ bpc' = 0
    /\ pc' = "call"
    /\ UNCHANGED << v31_rest, disposition, index, failed, successful, jmp, it,
                    out, executed_out, exit_code, tally >>

\* FAIL(reason): catch (vstl::TestFail&) prints the line, counts the failure and
\* returns false
v31_body_fail ==
    /\ AtInstr("FAIL")
    /\ out' = Append(out, Line(it, "failed", "assert", 0,
                               "Error: " \o FailMessage(CurInstr.arg, CurInstr.line)))
    /\ failed' = failed + 1
    /\ tally' = Bump("failed")
    /\ rep' = 0
    /\ bpc' = 0
    /\ pc' = "ret_false"
    /\ UNCHANGED << v31_rest, disposition, index, successful, jmp, it,
                    executed_out, exit_code >>

\* the body throws anything else: catch (...) tries the handlers, then prints the
\* fallback line; the failure is counted and Test::run returns false
v31_body_throw ==
    /\ AtInstr("THROW")
    /\ out' = Append(out,
          IF TryHandlers(1, Exc(CurInstr.exc, CurInstr.arg.str)).kind = "test_error"
          THEN [Line(it, "failed", "handler", 0,
                     "Error: " \o TryHandlers(1, Exc(CurInstr.exc, CurInstr.arg.str)).what)
                   EXCEPT !.tried = HandlersCalled(1, Exc(CurInstr.exc, CurInstr.arg.str))]
          ELSE [Line(it, "failed", "unregistered", 0,
                     v31_unregistered(Exc(CurInstr.exc, CurInstr.arg.str)))
                   EXCEPT !.tried = HandlersCalled(1, Exc(CurInstr.exc, CurInstr.arg.str))])
    /\ failed' = failed + 1
    /\ tally' = Bump("failed")
    /\ rep' = 0
    /\ bpc' = 0
    /\ pc' = "ret_false"
    /\ UNCHANGED << v31_rest, disposition, index, successful, jmp, it,
                    executed_out, exit_code >>

\* the body raises a signal: signal_handler prints the line of tests[test_id] and
\* jumps back to the sigsetjmp of run
v31_body_raise ==
    /\ AtInstr("RAISE")
    /\ IF disposition[CurInstr.sig] = "handler" /\ index < NumTests
       THEN /\ out' = Append(out, Line(index + 1, "failed", "signal", CurInstr.sig,
                        "Error: Received SIGSEGV while trying to access: 0x<si_addr>!"))
            /\ rep' = 0
            /\ bpc' = 0
            /\ pc' = "jmp_ret"
       ELSE /\ pc' = "killed"
            /\ UNCHANGED << out, rep, bpc >>
    /\ UNCHANGED << v31_rest, disposition, index, failed, successful, jmp, it,
                    executed_out, exit_code, tally >>

\* run: if (sigsetjmp(jmp, 1)) { failed ++; goto skip; }
v31_run_signalled ==
    /\ pc = "jmp_ret"
    /\ failed' = failed + 1
    /\ tally' = Bump("failed")
    /\ pc' = "skip"
    /\ UNCHANGED << v31_rest, disposition, index, successful, jmp, it, rep, bpc,
                    out, executed_out, exit_code >>

\* run: if (!test.run(out) && mode == VSTL_MODE_STRICT) { break; }
v31_run_returned ==
    /\ pc \in {"ret_true", "ret_false"}
    /\ pc' = IF pc = "ret_false" /\ mode = VSTL_MODE_STRICT THEN "summary" ELSE "skip"
    /\ UNCHANGED << v31_rest, disposition, index, failed, successful, jmp, it,
                    rep, bpc, out, executed_out, exit_code, tally >>

\* run: skip: test_id ++; and the increment of the range-for
v31_run_skip ==
    /\ pc = "skip"
    /\ index' = index + 1
    /\ it' = it + 1
    /\ pc' = "loop"
    /\ UNCHANGED << v31_rest, disposition, failed, successful, jmp, rep, bpc,
                    out, executed_out, exit_code, tally >>

\* vstl::summary(out, time)
v31_summary ==
    /\ pc = "summary"
    /\ executed_out' = Append(executed_out,
                              [executed |-> failed + successful,
                               failed |-> failed,
                               succeeded |-> [wrapped |-> FALSE, value |-> successful]])
    /\ pc' = "returned"
    /\ UNCHANGED << v31_rest, disposition, index, failed, successful, jmp, it,
                    rep, bpc, out, exit_code, tally >>

\* run: return vstl::failed, which main returns
v31_return ==
    /\ pc = "returned"
    /\ exit_code' = failed
    /\ pc' = "exit"
    /\ UNCHANGED << v31_rest, disposition, index, failed, successful, jmp, it,
                    rep, bpc, out, executed_out, tally >>

NextV31 ==
    \/ v31_run_begin
    \/ v31_run_loop
    \/ v31_test_call
    \/ v31_body_return
    \/ v31_body_fail
    \/ v31_body_throw
    \/ v31_body_raise
    \/ v31_run_signalled
    \/ v31_run_returned
    \/ v31_run_skip
    \/ v31_summary
    \/ v31_return

SpecV31 == InitV31 /\ [][NextV31]_vars

\* C20: with VSTL_MODE_STRICT no test registered after a test that failed has
\* its body invoked, whether the failure is a FAIL, an exception or a SIGSEGV
\* the handler recovered from.
C20_StrictStopsAtFirstFailure ==
    mode = VSTL_MODE_STRICT =>
        \A k \in 1..Len(out) :
            out[k].status = "failed" =>
                \A v \in (out[k].unit + 1)..NumTests : tally[v].invoked = 0

(***************************************************************************)
(* Both values of VSTL_TRIGGER_DEBUGGER, over single tests.                *)
(***************************************************************************)
InitDebugger ==
    \E b \in Bodies \cup { raise_trap, expect_trap }, dbg \in BOOLEAN :
        InitWith(<< b >>, << >>, VSTL_TEST_COUNT, dbg, VSTL_PRINT_SKIP_REASON)

SpecDebugger == InitDebugger /\ [][Next]_vars

\* The signals init() passes to catch_signal on a POSIX target.
Caught == {SIGALRM, SIGSEGV, SIGILL, SIGFPE, SIGABRT, SIGTERM}

\* C21 as the specification has it: once init() has run, SIGSEGV, SIGILL, SIGFPE,
\* SIGABRT, SIGTERM, SIGALRM and SIGTRAP all go to signal_handler, whatever
\* VSTL_TRIGGER_DEBUGGER is.
C21_AllRouted ==
    pc # "main" => \A s \in Caught \cup {SIGTRAP} : disposition[s] = "handler"

\* C21, amended: once init() has run, SIGSEGV, SIGILL, SIGFPE, SIGABRT, SIGTERM
\* and SIGALRM go to signal_handler whatever VSTL_TRIGGER_DEBUGGER is; SIGTRAP
\* never does: it is ignored when VSTL_TRIGGER_DEBUGGER is true and keeps the
\* disposition the process started with when it is false, so a SIGTRAP raised
\* in a body prints no result line and satisfies no EXPECT_SIGNAL(SIGTRAP): the
\* body goes on, or the process is terminated.
C21_TrapNotRouted ==
    /\ [](pc # "main" =>
            /\ \A s \in Caught : disposition[s] = "handler"
            /\ disposition[SIGTRAP] = IF trigger_debugger THEN "ignore" ELSE "default")
    /\ [][ (AtInstr("RAISE") /\ CurInstr.sig = SIGTRAP /\ ~Expired) =>
              /\ out' = out
              /\ expected_signal' = expected_signal
              /\ IF trigger_debugger
                 THEN pc' = "body" /\ bpc' = bpc + 1 /\ blocks' = blocks
                 ELSE pc' = "killed" ]_vars

\* Built without the debugger trigger, a test that raised SIGTRAP ended the
\* process before any result line was printed.
C21_Witness ==
    /\ ~trigger_debugger
    /\ tests = << raise_trap >>
    /\ pc = "killed"
    /\ out = << >>

(***************************************************************************)
(* The harness as src/demo.cpp builds it: the macros it defines before the *)
(* include, and the #ifndef defaults of the header for the others.         *)
(***************************************************************************)
demo_defines ==
    [VSTL_USE_ANSI |-> FALSE, VSTL_PRINT_TIME |-> FALSE,
     VSTL_PRINT_SKIP_MESSAGES |-> TRUE]

\* #ifndef name / #define name default / #endif
ifndef(defines, name, default) ==
    IF name \in DOMAIN defines THEN defines[name] ELSE default

InitDemo ==
    \E ts \in TestLists, hs \in HandlerLists :
        InitWith(ts, hs,
                 ifndef(demo_defines, "VSTL_TEST_COUNT", VSTL_TEST_COUNT),
                 ifndef(demo_defines, "VSTL_TRIGGER_DEBUGGER", VSTL_TRIGGER_DEBUGGER),
                 ifndef(demo_defines, "VSTL_PRINT_SKIP_REASON", VSTL_PRINT_SKIP_REASON))

SpecDemo == InitDemo /\ [][Next]_vars

\* C22: built with the macros of demo.cpp, the result line of a test that called
\* SKIP(reason) carries the reason after the status word.
C22_SkipReasonShown ==
    [][ (AtInstr("SKIP") /\ ~Expired) =>
          /\ OneMoreLine
          /\ out'[Len(out')].status = "skipped"
          /\ out'[Len(out')].text =
                " " \o FailMessage(CurInstr.arg, CurInstr.line) ]_vars

\* The instructions of the running body that this invocation has gone past.
Passed(op) == {j \in 1..Len(CurBody) : j < bpc /\ CurBody[j].op = op}

\* C23: test::call disarms the timer and clears fail_on_alarm and
\* expected_signal before every invocation of a body, so inside a body the timer
\* is armed, or fail_on_alarm set, only by a TIMEOUT of this invocation, and
\* expected_signal is set only by an EXPECT_SIGNAL of this invocation.
C23_ResetPerInvocation ==
    /\ [][ (pc = "call" /\ pc' = "body") =>
              /\ timer' = 0
              /\ ~fail_on_alarm'
              /\ expected_signal' = 0 ]_vars
    /\ [](pc = "body" =>
            /\ (timer > 0 \/ fail_on_alarm) => Passed("TIMEOUT") # {}
            /\ expected_signal # 0 =>
                  \E j \in Passed("EXPECT_SIGNAL") : CurBody[j].sig = expected_signal)

\* A second invocation of a body starts with the timer disarmed after the first
\* invocation armed it and returned.
C23_Witness ==
    /\ count >= 2
    /\ AtInstr("TIMEOUT")
    /\ rep >= 1
    /\ bpc = 1
    /\ timer = 0
    /\ ~fail_on_alarm

\* The body of test u was left through the sigsetjmp of run(): a signal or the
\* timeout was reported while it was running.
AbandonedAt(u) ==
    \E k \in LinesAt(u) :
        /\ out[k].where = "body"
        /\ out[k].status = "failed"
        /\ out[k].cause \in {"signal", "timeout"}

\* C24: a jump from the body of test i to the sigsetjmp of run() lands in the
\* iteration of test i with the body and its remaining repetitions abandoned;
\* from there run() counts a failure and moves to test i + 1 without calling
\* test::run, and the body of test i is never invoked after that.
C24_NoReinvocation ==
    /\ [][ (pc = "body" /\ pc' = "jmp_ret") =>
              it' = it /\ rep' = 0 /\ bpc' = 0 /\ blocks' = << >> ]_vars
    /\ [][ pc = "jmp_ret" =>
              /\ pc' \in {"jmp_ret", "skip", "undefined"}
              /\ pc' = "skip" => failed' = failed + 1 /\ it' = it ]_vars
    /\ [][ (pc = "skip" /\ pc' = "next") => it' = it /\ index' = index + 1 ]_vars
    /\ [][ (pc = "next" /\ pc' = "loop") => it' = it + 1 ]_vars
    /\ [][ \A u \in Units :
              AbandonedAt(u) => tally'[u].invoked = tally[u].invoked ]_vars

\* With a repeat count of at least 2, a test whose first invocation was
\* abandoned for a signal was counted failed, and run() went on to the next
\* test without a second invocation.
C24_Witness ==
    /\ count >= 2
    /\ NumTests = 2
    /\ AbandonedAt(1)
    /\ \E k \in CausedAt(1, "signal") : out[k].where = "body"
    /\ tally[1].invoked = 1
    /\ tally[1].failed = 1
    /\ pc = "body"
    /\ it = 2

\* C25: while the body of the test at loop position i runs, vstl::index names
\* that test and jmp was filled in its iteration, so every signal or timeout
\* line printed from a body names the test whose body was running.
C25_Attribution ==
    /\ pc = "body" => index = it - 1 /\ jmp = it
    /\ \A k \in 1..Len(out) :
          (out[k].where = "body" /\ out[k].cause \in {"signal", "timeout"}) =>
              out[k].unit = out[k].at

(***************************************************************************)
(* Runs over the bodies that expect signals, with those that leave a timer *)
(* armed behind them.                                                      *)
(***************************************************************************)
ExpectBodies ==
    { vstl_signal, expect_twice, expect_none, timeout_quick, timeout_skip,
      vstl_fail, flaky_second, vstl_throw }

InitExpect ==
    \E ts \in UNION { [1..n -> ExpectBodies] : n \in 0..MaxUnits } :
        InitWith(ts, << >>, VSTL_TEST_COUNT, VSTL_TRIGGER_DEBUGGER,
                 VSTL_PRINT_SKIP_REASON)

SpecExpect == InitExpect /\ [][Next]_vars

\* The body raises, outside every EXPECT_SIGNAL block, a signal that a block it
\* has left expected.
RaisedAgain ==
    /\ AtInstr("RAISE")
    /\ blocks = << >>
    /\ \E j \in Passed("EXPECT_SIGNAL") : CurBody[j].sig = CurInstr.sig
    /\ ~(CurInstr.sig = SIGALRM /\ fail_on_alarm)
    /\ ~Expired

\* C26: the interception of the expected signal clears expected_signal, and the
\* same signal raised again in the test after the block is reported as a
\* failure of the test and takes run() to its sigsetjmp, where the test is
\* counted failed.
C26_OneShot ==
    /\ [][ MatchedRaise => expected_signal' = 0 ]_vars
    /\ [][ RaisedAgain =>
              /\ expected_signal = 0
              /\ pc' = "jmp_ret"
              /\ it' = it
              /\ OneMoreLine
              /\ out'[Len(out')].status = "failed"
              /\ out'[Len(out')].cause = "signal"
              /\ out'[Len(out')].sig = CurInstr.sig ]_vars
    /\ [][ (pc = "jmp_ret" /\ pc' = "skip") => failed' = failed + 1 ]_vars

\* The timer expires in a body that armed it before an EXPECT_SIGNAL block and
\* has left that block.
ExpiredAfterBlock ==
    /\ pc = "body"
    /\ blocks = << >>
    /\ \E t \in Passed("TIMEOUT"), e \in Passed("EXPECT_SIGNAL") : t < e
    /\ Expired

\* C27: the interception of the expected signal leaves the timer and
\* fail_on_alarm as they are, and when the timer expires in the body after the
\* block the test is reported failed with "Timeout reached!", run() resumes at
\* its sigsetjmp in the iteration of the test and counts it failed.
C27_TimeoutSurvivesExpectation ==
    /\ [][ MatchedRaise => timer' = timer /\ fail_on_alarm' = fail_on_alarm ]_vars
    /\ [][ ExpiredAfterBlock =>
              /\ pc' = "jmp_ret"
              /\ it' = it
              /\ OneMoreLine
              /\ out'[Len(out')].status = "failed"
              /\ out'[Len(out')].cause = "timeout"
              /\ out'[Len(out')].text = "Timeout reached!" ]_vars
    /\ [][ (pc = "jmp_ret" /\ pc' = "skip") =>
              failed' = failed + 1 /\ successful' = successful ]_vars

(***************************************************************************)
(* The process keeps executing and an armed timer expires unless it is     *)
(* disarmed first.                                                         *)
(***************************************************************************)
SpecFair == Init /\ [][Next]_vars /\ WF_vars(Next) /\ WF_vars(timer_expire)

\* C28: every body of Bodies returns, throws, raises a signal init() catches, or
\* spins with a timeout armed; run() then leaves its loop and prints the
\* summary.
C28_SummaryEventually == <>SummaryEmitted

(***************************************************************************)
(* Bodies with EXPECT_ANY blocks.                                          *)
(***************************************************************************)
AnyBodies == ExpectBodies \cup { any_signal_throw, any_thrown, any_none }

InitAny ==
    \E ts \in UNION { [1..n -> AnyBodies] : n \in 0..MaxUnits } :
        InitWith(ts, << >>, VSTL_TEST_COUNT, VSTL_TRIGGER_DEBUGGER,
                 VSTL_PRINT_SKIP_REASON)

NextAny == Next \/ body_expect_any \/ body_any_end \/ body_throw_caught

SpecAny == InitAny /\ [][NextAny]_vars

\* The body raises a signal init() catches while it is in no EXPECT_SIGNAL block
\* for that signal, and vstl::index names the running test.
RaisedOutside ==
    /\ AtInstr("RAISE")
    /\ CurInstr.sig \in Caught
    /\ ~(CurInstr.sig = SIGALRM /\ fail_on_alarm)
    /\ \A i \in 1..Len(blocks) :
          ~(CurBody[blocks[i]].op = "EXPECT_SIGNAL"
              /\ CurBody[blocks[i]].sig = CurInstr.sig)
    /\ index = it - 1
    /\ ~Expired

\* C29: a signal raised where no EXPECT_SIGNAL block for it is open, a block
\* left by an exception included, finds expected_signal different from it: the
\* handler reports the signal as a failure of the test and jumps to the
\* sigsetjmp of run(), never to the one of a block that was left.
C29_LeftBlockNotExpected ==
    [][ RaisedOutside =>
          /\ expected_signal # CurInstr.sig
          /\ pc' = "jmp_ret"
          /\ OneMoreLine
          /\ out'[Len(out')].unit = it
          /\ out'[Len(out')].status = "failed"
          /\ out'[Len(out')].cause = "signal" ]_vars

(***************************************************************************)
(* SIGTERM sent to the process from outside, at any moment.                *)
(***************************************************************************)
external_signal ==
    /\ pc \notin Stopped
    /\ Cardinality({k \in 1..Len(out) : out[k].sig = SIGTERM}) < MaxExternal
    /\ Deliver(SIGTERM, UNCHANGED control)
    /\ UNCHANGED << config, counters, disposition, timer, fail_on_alarm, jmp,
                    executed_out, exit_code, tally >>

NextExternal == Next \/ external_signal

SpecExternal == InitExpect /\ [][NextExternal]_vars

\* The step runs signal_handler: for a signal of the body, the timer, or a
\* SIGTERM from outside.
HandlerRuns ==
    \/ body_raise /\ disposition[CurInstr.sig] = "handler"
    \/ timer_expire
    \/ external_signal /\ disposition[SIGTERM] = "handler"

\* C30: whenever signal_handler runs once run() has filled jmp, index is a
\* position of tests and jmp was filled in the iteration run() is in, which has
\* not reached its end.
C30_HandlerInBounds ==
    [][ (HandlerRuns /\ jmp # 0) =>
          /\ index < NumTests
          /\ jmp = it
          /\ pc \in {"call", "body", "ret_true", "ret_false", "jmp_ret", "skip"} ]_vars

====
